---- MODULE Spec2Model ----
(***************************************************************************)
(* A model of slurp's SIP message layer: the Header abstraction            *)
(* (header.go), the validator, header parser and header renderer           *)
(* (message.go) and the two message variants Invite (invite.go) and        *)
(* Register (register.go).                                                 *)
(*                                                                         *)
(* Text is a sequence of one-character strings, so that the Go string      *)
(* functions the code calls (Split, TrimSpace, HasPrefix, Index, ...)      *)
(* are computed rather than assumed.                                       *)
(***************************************************************************)
EXTENDS Integers, Sequences, FiniteSets, TLC

(***************************************************************************)
(* Go's strings / strconv / fmt functions, as the code uses them.          *)
(***************************************************************************)

\* unicode.IsSpace restricted to the characters the wire format uses
WhiteSpace == {" ", "\t", "\n", "\r"}

LowerLetters == <<"a", "b", "c", "d", "e", "f", "g", "h", "i", "j", "k", "l", "m", "n", "o", "p", "q", "r", "s", "t", "u", "v", "w", "x", "y", "z">>
UpperLetters == <<"A", "B", "C", "D", "E", "F", "G", "H", "I", "J", "K", "L", "M", "N", "O", "P", "Q", "R", "S", "T", "U", "V", "W", "X", "Y", "Z">>
Digits == <<"0", "1", "2", "3", "4", "5", "6", "7", "8", "9">>

\* the position of ch in the table tab, 0 when it is not there
PosIn(tab, ch) ==
  IF \E i \in 1..Len(tab) : tab[i] = ch
  THEN CHOOSE i \in 1..Len(tab) : tab[i] = ch
  ELSE 0

UpperChar(ch) == IF PosIn(LowerLetters, ch) = 0 THEN ch ELSE UpperLetters[PosIn(LowerLetters, ch)]
LowerChar(ch) == IF PosIn(UpperLetters, ch) = 0 THEN ch ELSE LowerLetters[PosIn(UpperLetters, ch)]

\* strings.ToUpper, strings.ToLower
ToUpper(s) == [i \in 1..Len(s) |-> UpperChar(s[i])]
ToLower(s) == [i \in 1..Len(s) |-> LowerChar(s[i])]

\* s[from:] with Go's 0-based offset
SliceFrom(s, from) == SubSeq(s, from + 1, Len(s))

\* strings.HasPrefix, strings.HasSuffix
HasPrefix(s, p) == Len(s) >= Len(p) /\ SubSeq(s, 1, Len(p)) = p
HasSuffix(s, p) == Len(s) >= Len(p) /\ SubSeq(s, Len(s) - Len(p) + 1, Len(s)) = p

\* strings.Index for a one-character separator: 0-based, -1 when absent
Index(s, ch) ==
  IF \E i \in 1..Len(s) : s[i] = ch
  THEN (CHOOSE i \in 1..Len(s) : s[i] = ch /\ \A j \in 1..(i - 1) : s[j] # ch) - 1
  ELSE -1

\* strings.TrimSpace
RECURSIVE TrimLeft(_)
TrimLeft(s) == IF s # <<>> /\ Head(s) \in WhiteSpace THEN TrimLeft(Tail(s)) ELSE s
RECURSIVE TrimRight(_)
TrimRight(s) == IF s # <<>> /\ s[Len(s)] \in WhiteSpace THEN TrimRight(SubSeq(s, 1, Len(s) - 1)) ELSE s
TrimSpace(s) == TrimRight(TrimLeft(s))

\* strings.SplitN(s, sep, n) for a one-character sep: at most n pieces when
\* n > 0 (the last one the unsplit rest), every piece when n < 0
RECURSIVE SplitN(_, _, _)
SplitN(s, sep, n) ==
  LET i == Index(s, sep) IN
  IF n = 1 \/ i = -1 THEN <<s>>
  ELSE <<SubSeq(s, 1, i)>> \o SplitN(SliceFrom(s, i + 1), sep, IF n < 0 THEN n ELSE n - 1)

\* strings.Split
Split(s, sep) == SplitN(s, sep, -1)

\* strings.Replace(s, old, new, n) for a one-character old: the first n
\* occurrences when n >= 0, all of them when n < 0
RECURSIVE Replace(_, _, _, _)
Replace(s, old, new, n) ==
  LET i == Index(s, old) IN
  IF n = 0 \/ i = -1 THEN s
  ELSE SubSeq(s, 1, i) \o new \o Replace(SliceFrom(s, i + 1), old, new, IF n < 0 THEN n ELSE n - 1)

\* strings.Join
RECURSIVE Join(_, _)
Join(elems, sep) ==
  IF elems = <<>> THEN <<>>
  ELSE IF Len(elems) = 1 THEN elems[1]
  ELSE elems[1] \o sep \o Join(Tail(elems), sep)

IsDigits(s) == s # <<>> /\ \A i \in 1..Len(s) : PosIn(Digits, s[i]) # 0

RECURSIVE DigitsValue(_)
DigitsValue(s) == IF s = <<>> THEN 0 ELSE 10 * DigitsValue(SubSeq(s, 1, Len(s) - 1)) + (PosIn(Digits, s[Len(s)]) - 1)

\* the largest value of a signed integer of the width ParseInt is given
Int32Max == 2147483647

\* strconv.ParseInt(s, 10, 32): an optional sign and decimal digits; the
\* value is 0 on a syntax error and the nearest bound on a range error
ParseInt(s) ==
  LET neg  == s # <<>> /\ Head(s) = "-"
      body == IF s # <<>> /\ Head(s) \in {"+", "-"} THEN Tail(s) ELSE s
  IN  IF ~IsDigits(body) THEN [ok |-> FALSE, val |-> 0]
      ELSE LET v == DigitsValue(body) IN
           IF ~neg /\ v > Int32Max THEN [ok |-> FALSE, val |-> Int32Max]
           ELSE IF neg /\ v > Int32Max + 1 THEN [ok |-> FALSE, val |-> -(Int32Max + 1)]
           ELSE [ok |-> TRUE, val |-> IF neg THEN -v ELSE v]

\* trailing zeros of a fraction do not change the number
RECURSIVE StripZeros(_)
StripZeros(s) == IF s # <<>> /\ s[Len(s)] = "0" THEN StripZeros(SubSeq(s, 1, Len(s) - 1)) ELSE s

\* strconv.ParseFloat(s, 32) on plain decimals (digits, or digits "." digits):
\* the number is kept as its integer part and its fraction digits, which
\* is exact for the short decimals a SIP version is written with
ParseFloat(s) ==
  LET p == Split(s, ".") IN
  IF Len(p) = 1 /\ IsDigits(p[1])
    THEN [ok |-> TRUE, int |-> DigitsValue(p[1]), frac |-> <<>>]
  ELSE IF Len(p) = 2 /\ IsDigits(p[1]) /\ IsDigits(p[2])
    THEN [ok |-> TRUE, int |-> DigitsValue(p[1]), frac |-> StripZeros(p[2])]
  ELSE [ok |-> FALSE, int |-> 0, frac |-> <<>>]

\* fmt.Sprintf("%d", n)
RECURSIVE NatToStr(_)
NatToStr(n) == IF n < 10 THEN <<Digits[n + 1]>> ELSE NatToStr(n \div 10) \o <<Digits[(n % 10) + 1]>>
IntToStr(n) == IF n < 0 THEN <<"-">> \o NatToStr(-n) ELSE NatToStr(n)

(***************************************************************************)
(* The literals of the code.                                               *)
(***************************************************************************)
sINVITE == <<"I", "N", "V", "I", "T", "E">>
sREGISTER == <<"R", "E", "G", "I", "S", "T", "E", "R">>
sRegister == <<"R", "e", "g", "i", "s", "t", "e", "r">>
sSIP20 == <<"S", "I", "P", "/", "2", ".", "0">>
sTagEq == <<"t", "a", "g", "=">>
sUnderscore == <<"_">>
kValue == <<"_", "v", "a", "l", "u", "e">>
kUri == <<"_", "u", "r", "i">>
sTag == <<"t", "a", "g">>
hMaxForwards == <<"m", "a", "x", "-", "f", "o", "r", "w", "a", "r", "d", "s">>
hContact == <<"c", "o", "n", "t", "a", "c", "t">>
hContentType == <<"c", "o", "n", "t", "e", "n", "t", "-", "t", "y", "p", "e">>
hContentLength == <<"c", "o", "n", "t", "e", "n", "t", "-", "l", "e", "n", "g", "t", "h">>
hVia == <<"v", "i", "a">>
hCSeq == <<"c", "s", "e", "q">>
hCallId == <<"c", "a", "l", "l", "-", "i", "d">>
hFrom == <<"f", "r", "o", "m">>
hTo == <<"t", "o">>
CRLF == <<"\r", "\n">>
fVia == <<"V", "i", "a", ":", " ", "S", "I", "P", "/", "2", ".", "0", "/">>
fBranch == <<";", "b", "r", "a", "n", "c", "h", "=">>
fMaxForwards == <<"M", "a", "x", "-", "F", "o", "r", "w", "a", "r", "d", "s", ":", " ">>
fFrom == <<"F", "r", "o", "m", ":", " ">>
fTag == <<";", "t", "a", "g", "=">>
fTo == <<"T", "o", ":", " ">>
fContact == <<"C", "o", "n", "t", "a", "c", "t", ":", " ">>
fCallId == <<"C", "a", "l", "l", "-", "I", "D", ":", " ">>
fContentType == <<"C", "o", "n", "t", "e", "n", "t", "-", "T", "y", "p", "e", ":", " ">>
fContentLength == <<"C", "o", "n", "t", "e", "n", "t", "-", "L", "e", "n", "g", "t", "h", ":", " ">>
fCSeq == <<"C", "S", "e", "q", ":", " ">>
fSupported == <<"S", "u", "p", "p", "o", "r", "t", "e", "d", ":", " ", "S", "U", "B", "S", "C", "R", "I", "B", "E", ",", " ", "N", "O", "T", "I", "F", "Y">>
fSip == <<" ", "s", "i", "p", ":">>
fSipVersion == <<" ", "S", "I", "P", "/", "2", ".", "0">>
fParamSep == <<";", " ">>
fToFromTag == <<";", " ", "t", "a", "g", "=">>

(***************************************************************************)
(* header.go: the Header interface and its two implementations.  A Header  *)
(* field that was never assigned holds the nil interface; calling a        *)
(* method on it faults.                                                    *)
(***************************************************************************)
NilHeader == [kind |-> "nil"]

\* a Go map: a function on the keys that are set; a missing key reads as ""
EmptyMap == [k \in {} |-> <<>>]
MapGet(m, k) == IF k \in DOMAIN m THEN m[k] ELSE <<>>
MapSet(m, k, v) == [x \in (DOMAIN m) \cup {k} |-> IF x = k THEN v ELSE m[x]]

\* &Contact{} / NewHeader(&Contact{}): an empty map
NewContact == [kind |-> "Contact", m |-> EmptyMap]
\* NewHeader(&ToFrom{}): the zero struct
NewToFrom == [kind |-> "ToFrom", value |-> <<>>, uri |-> <<>>, tag |-> <<>>]

Value(h) == IF h.kind = "Contact" THEN MapGet(h.m, kValue) ELSE h.value
Uri(h) == IF h.kind = "Contact" THEN MapGet(h.m, kUri) ELSE h.uri
Param(h, name) ==
  IF h.kind = "Contact" THEN MapGet(h.m, name)
  ELSE IF name # sTag THEN <<>> ELSE h.tag

SetValue(h, value) ==
  IF h.kind = "Contact" THEN [h EXCEPT !.m = MapSet(h.m, kValue, value)]
  ELSE [h EXCEPT !.value = value]
SetUri(h, uri) ==
  IF h.kind = "Contact" THEN [h EXCEPT !.m = MapSet(h.m, kUri, uri)]
  ELSE [h EXCEPT !.uri = uri]
\* SetParam as it would be if ToFrom kept the value whatever the name
SetParamAnyName(h, name, value) ==
  IF h.kind = "Contact" THEN [h EXCEPT !.m = MapSet(h.m, name, value)]
  ELSE [h EXCEPT !.tag = value]

SetParam(h, name, value) ==
  IF h.kind = "Contact" THEN [h EXCEPT !.m = MapSet(h.m, name, value)]
  ELSE IF name = sTag THEN [h EXCEPT !.tag = value] ELSE h

\* the orders in which a range over the map may visit its keys: Go leaves
\* the order unspecified.  The loop body skips the reserved keys, so only
\* the order of the others shows in the result and only that is drawn.
OrdersOf(S) == {f \in [1..Cardinality(S) -> S] : \A i, j \in 1..Cardinality(S) : f[i] = f[j] => i = j}
RangeOrders(h) ==
  IF h.kind = "Contact" THEN OrdersOf({k \in DOMAIN h.m : ~HasPrefix(k, sUnderscore)})
  ELSE {<<>>}

\* Contact.ParamString, visiting the keys in the order ord
RECURSIVE ContactParamString(_, _)
ContactParamString(m, ord) ==
  IF ord = <<>> THEN <<>>
  ELSE (IF ~HasPrefix(Head(ord), sUnderscore)
        THEN fParamSep \o Head(ord) \o <<"=">> \o m[Head(ord)]
        ELSE <<>>) \o ContactParamString(m, Tail(ord))

ParamString(h, ord) ==
  IF h.kind = "Contact" THEN ContactParamString(h.m, ord)
  ELSE fToFromTag \o h.tag

(***************************************************************************)
(* errors/errors.go                                                        *)
(***************************************************************************)
NoError == [kind |-> "nil"]
InvalidMethodError(expected, actual) == [kind |-> "InvalidMethodError", Expected |-> expected, Actual |-> actual]
UnsupportedSipVersionError(version) == [kind |-> "UnsupportedSipVersionError", Version |-> version]
InvalidMessageFormatError(line) == [kind |-> "InvalidMessageFormatError", text |-> line]
HeaderParseError(line, message) == [kind |-> "HeaderParseError", Line |-> line, Message |-> message]

(***************************************************************************)
(* message.go: the records, the validator and the header parser.  A        *)
(* function's result says whether it returned or faulted (an index out of  *)
(* range, a nil dereference), and carries what it had written by then.     *)
(***************************************************************************)
\* CommonHeaders{} and CallControlHeaders{}: the zero values
EmptyCommonHeaders ==
  [To |-> NilHeader, From |-> NilHeader, Contacts |-> <<>>, Forward |-> 0,
   UserAgent |-> <<>>, ContentType |-> <<>>, ContentLength |-> 0]
EmptyCallControlHeaders ==
  [Via |-> <<>>, ViaBranch |-> <<>>, CallId |-> <<>>, Sequence |-> 0, Authenticate |-> <<>>]

\* a float32 version number, as ParseFloat reads it
VersionNumber(f) == [int |-> f.int, frac |-> f.frac]

\* validateMethod as it would be if the method check returned at once
validateMethodFirstWins(line0, method) ==
  LET line == TrimSpace(line0)
      toks == Split(line, " ")
  IN  IF ~HasPrefix(ToUpper(line), method)
        THEN [panic |-> FALSE, err |-> InvalidMethodError(method, toks[1])]
      ELSE IF HasSuffix(line, sSIP20) THEN [panic |-> FALSE, err |-> NoError]
      ELSE IF Len(toks) < 3 \/ Len(Split(toks[3], "/")) < 2 THEN [panic |-> TRUE, err |-> NoError]
      ELSE IF ~ParseFloat(Split(toks[3], "/")[2]).ok
        THEN [panic |-> FALSE, err |-> InvalidMessageFormatError(line)]
      ELSE [panic |-> FALSE, err |-> UnsupportedSipVersionError(VersionNumber(ParseFloat(Split(toks[3], "/")[2])))]

\* validateMethod as it would be without the TrimSpace of the line
validateMethodUntrimmed(line, method) ==
  LET toks == Split(line, " ")
      err  == IF ~HasPrefix(ToUpper(line), method)
              THEN InvalidMethodError(method, toks[1])
              ELSE NoError
  IN  IF HasSuffix(line, sSIP20) THEN [panic |-> FALSE, err |-> err]
      ELSE IF Len(toks) < 3 \/ Len(Split(toks[3], "/")) < 2 THEN [panic |-> TRUE, err |-> err]
      ELSE IF ~ParseFloat(Split(toks[3], "/")[2]).ok
        THEN [panic |-> FALSE, err |-> InvalidMessageFormatError(line)]
      ELSE [panic |-> FALSE, err |-> UnsupportedSipVersionError(VersionNumber(ParseFloat(Split(toks[3], "/")[2])))]

validateMethod(line0, method) ==
  LET line == TrimSpace(line0)
      toks == Split(line, " ")
      err  == IF ~HasPrefix(ToUpper(line), method)
              THEN InvalidMethodError(method, toks[1])
              ELSE NoError
  IN  IF HasSuffix(line, sSIP20) THEN [panic |-> FALSE, err |-> err]
      ELSE IF Len(toks) < 3 THEN [panic |-> TRUE, err |-> err]
      ELSE LET proto == Split(toks[3], "/") IN
           IF Len(proto) < 2 THEN [panic |-> TRUE, err |-> err]
           ELSE LET f == ParseFloat(proto[2]) IN
                IF ~f.ok THEN [panic |-> FALSE, err |-> InvalidMessageFormatError(line)]
                ELSE [panic |-> FALSE, err |-> UnsupportedSipVersionError(VersionNumber(f))]

\* parseFromTo: the header is written through the interface, so what was
\* set before a fault stays set
RECURSIVE parseFromToParams(_, _)
parseFromToParams(from, params) ==
  IF params = <<>> THEN from
  ELSE parseFromToParams(
         IF HasPrefix(Head(params), sTagEq)
         THEN SetParam(from, sTag, SplitN(Head(params), "=", 2)[2])
         ELSE from,
         Tail(params))

parseFromTo(value, from) ==
  LET params == Split(value, ";")
      parts  == Split(params[1], "<")
      named  == SetValue(from, TrimSpace(parts[1]))
  IN  IF Len(parts) < 2 THEN [panic |-> TRUE, failed |-> FALSE, hdr |-> named]
      ELSE [panic |-> FALSE, failed |-> FALSE,
            hdr |-> parseFromToParams(SetUri(named, Replace(parts[2], ">", <<>>, 1)), Tail(params))]

\* the Contact case of parseHeaders: the parameters of one contact
RECURSIVE parseContactParams(_, _)
parseContactParams(contact, params) ==
  IF params = <<>> THEN [panic |-> FALSE, contact |-> contact]
  ELSE LET parts == SplitN(Head(params), "=", 2) IN
       IF Len(parts) < 2 THEN [panic |-> TRUE, contact |-> contact]
       ELSE parseContactParams(SetParam(contact, ToLower(parts[1]), parts[2]), Tail(params))

\* the Contact case of parseHeaders: one comma-separated contact
parseContact(each) ==
  LET parts      == Split(each, ";")
      nameAndUri == Split(parts[1], "<")
      named      == SetValue(NewContact, TrimSpace(nameAndUri[1]))
      withUri    == IF Len(nameAndUri) > 1
                    THEN SetUri(named, TrimSpace(Replace(nameAndUri[2], ">", <<>>, -1)))
                    ELSE named
  IN  parseContactParams(withUri, Tail(parts))

\* the Contact case of parseHeaders: every contact of the line, appended
RECURSIVE parseContacts(_, _)
parseContacts(contacts, stored) ==
  IF contacts = <<>> THEN [panic |-> FALSE, Contacts |-> stored]
  ELSE LET r == parseContact(Head(contacts)) IN
       IF r.panic THEN [panic |-> TRUE, Contacts |-> stored]
       ELSE parseContacts(Tail(contacts), Append(stored, r.contact))

\* what each case of parseHeaders' switch stores
storeForward(n, h, c) == [panic |-> FALSE, failed |-> ~n.ok, h |-> [h EXCEPT !.Forward = n.val], c |-> c]
storeContentLength(n, h, c) == [panic |-> FALSE, failed |-> ~n.ok, h |-> [h EXCEPT !.ContentLength = n.val], c |-> c]
storeSequence(n, h, c) == [panic |-> FALSE, failed |-> ~n.ok, h |-> h, c |-> [c EXCEPT !.Sequence = n.val]]
storeContacts(r, h, c) == [panic |-> r.panic, failed |-> FALSE, h |-> [h EXCEPT !.Contacts = r.Contacts], c |-> c]
storeFrom(r, h, c) == [panic |-> r.panic, failed |-> r.failed, h |-> [h EXCEPT !.From = r.hdr], c |-> c]
storeTo(r, h, c) == [panic |-> r.panic, failed |-> r.failed, h |-> [h EXCEPT !.To = r.hdr], c |-> c]
storeVia(viaParts, h, c) ==
  LET transportParts == Split(viaParts[1], "/")
      transport      == transportParts[Len(transportParts)]
  IN  IF Len(viaParts) < 2 THEN [panic |-> TRUE, failed |-> FALSE, h |-> h, c |-> c]
      ELSE [panic |-> FALSE, failed |-> FALSE, h |-> h,
            c |-> [c EXCEPT !.Via = Append(c.Via, <<transport, viaParts[2]>>)]]

\* parseHeaders' switch on the lower-cased header name
parseHeaderCase(type, value, h, c) ==
  CASE type = hMaxForwards -> storeForward(ParseInt(value), h, c)
    [] type \in {hContact, <<"m">>} -> storeContacts(parseContacts(Split(value, ","), h.Contacts), h, c)
    [] type \in {hContentType, <<"c">>} ->
         [panic |-> FALSE, failed |-> FALSE, h |-> [h EXCEPT !.ContentType = value], c |-> c]
    [] type \in {hContentLength, <<"l">>} -> storeContentLength(ParseInt(value), h, c)
    [] type \in {hVia, <<"v">>} -> storeVia(Split(SplitN(value, ";", 2)[1], " "), h, c)
    [] type = hCSeq -> storeSequence(ParseInt(Split(value, " ")[1]), h, c)
    [] type \in {hCallId, <<"i">>} ->
         [panic |-> FALSE, failed |-> FALSE, h |-> h, c |-> [c EXCEPT !.CallId = value]]
    [] type \in {hFrom, <<"f">>} ->
         storeFrom(parseFromTo(value, IF h.From = NilHeader THEN NewToFrom ELSE h.From), h, c)
    [] type \in {hTo, <<"t">>} ->
         storeTo(parseFromTo(value, IF h.To = NilHeader THEN NewToFrom ELSE h.To), h, c)
    [] OTHER -> [panic |-> FALSE, failed |-> FALSE, h |-> h, c |-> c]

\* the name and value of a line split on its first colon
parseHeaderParts(parts, h, c) ==
  IF Len(parts) < 2 THEN [panic |-> TRUE, failed |-> FALSE, h |-> h, c |-> c]
  ELSE parseHeaderCase(ToLower(TrimSpace(parts[1])), TrimSpace(parts[2]), h, c)

\* the body of parseHeaders' loop for one trimmed, non-empty line: failed
\* is err != nil after the switch
parseHeaderLine(line, h, c) == parseHeaderParts(SplitN(line, ":", 2), h, c)

\* parseHeaders' loop over lines[1:]: i is the loop index of Head(rest)
RECURSIVE parseHeaderLines(_, _, _, _, _)

\* the end of the loop body: r is what the switch left
parseHeaderNext(lines, i, rest, r) ==
  IF r.panic THEN [panic |-> TRUE, err |-> NoError, h |-> r.h, c |-> r.c]
  ELSE IF r.failed
    THEN [panic |-> FALSE, err |-> HeaderParseError(i, Join(lines, <<>>)), h |-> r.h, c |-> r.c]
  ELSE parseHeaderLines(lines, i + 1, Tail(rest), r.h, r.c)

\* the start of the loop body: line is the trimmed line
parseHeaderTrimmed(lines, i, rest, line, h, c) ==
  IF Len(line) = 0 THEN [panic |-> FALSE, err |-> NoError, h |-> h, c |-> c]
  ELSE parseHeaderNext(lines, i, rest, parseHeaderLine(line, h, c))

parseHeaderLines(lines, i, rest, h, c) ==
  IF rest = <<>> THEN [panic |-> FALSE, err |-> NoError, h |-> h, c |-> c]
  ELSE parseHeaderTrimmed(lines, i, rest, TrimSpace(Head(rest)), h, c)

parseHeaders(lines, h, c) == parseHeaderLines(lines, 0, Tail(lines), h, c)

\* the "%d" that Max-Forwards is rendered with when Forward is 0
DefaultForwards == 70

\* renderHeaders as it would be without the default: Forward written as stored
defaultForwardSkipped(h) == h

\* renderHeaders' default for Max-Forwards, assigned to its copy of h
defaultForward(h) == IF h.Forward = 0 THEN [h EXCEPT !.Forward = DefaultForwards] ELSE h

\* the fallback as it would be copying From's tag into the contact made
RenderedContactsTagged(h) ==
  IF Len(h.Contacts) = 0
  THEN IF h.From = NilHeader THEN <<>>
       ELSE <<SetParam(SetValue(SetUri(NewContact, Uri(h.From)), Value(h.From)), sTag, Param(h.From, sTag))>>
  ELSE h.Contacts

\* the contacts renderHeaders writes: the stored ones, or one made from From
RenderedContacts(h) ==
  IF Len(h.Contacts) = 0
  THEN IF h.From = NilHeader THEN <<>>
       ELSE <<SetValue(SetUri(NewContact, Uri(h.From)), Value(h.From))>>
  ELSE h.Contacts

\* one Contact line of renderHeaders
ContactLine(contact, ord) ==
  fContact \o Join(<<Value(contact), <<"<">> \o Uri(contact) \o <<">">> >>, <<" ">>)
           \o ParamString(contact, ord)

\* the appends as they would be with Call-ID written before the contacts
HeaderLinesCallIdFirst(via, forwards, from, to, contacts, id, content) ==
  <<via, forwards, from, to, id>> \o contacts \o content

\* the lines renderHeaders appends, in the order it appends them
HeaderLines(via, forwards, from, to, contacts, id, content) ==
  <<via, forwards, from, to>> \o contacts \o <<id>> \o content

\* renderHeaders: h and c are copies (passed by value), so what it assigns
\* is local; the result carries the copy as it stands at the end.  ords
\* holds, per contact written, the order its parameter map is ranged in.
renderHeaders(h, c, ords) ==
  IF Len(c.Via) = 0 \/ h.From = NilHeader \/ h.To = NilHeader
  THEN [panic |-> TRUE, text |-> <<>>, h |-> h]
  ELSE
  LET via      == fVia \o c.Via[1][1] \o <<" ">> \o c.Via[1][2] \o fBranch \o c.ViaBranch
      h1       == defaultForward(h)
      forwards == fMaxForwards \o IntToStr(h1.Forward)
      from     == fFrom \o Value(h1.From) \o <<" ", "<">> \o Uri(h1.From) \o <<">">>
                        \o fTag \o Param(h1.From, sTag)
      to       == fTo \o Value(h1.To) \o <<" ", "<">> \o Uri(h1.To) \o <<">">>
                      \o (IF Param(h1.To, sTag) # <<>> THEN fTag \o Param(h1.To, sTag) ELSE <<>>)
      h2       == [h1 EXCEPT !.Contacts = RenderedContacts(h1)]
      contacts == [i \in 1..Len(h2.Contacts) |-> ContactLine(h2.Contacts[i], ords[i])]
      id       == fCallId \o c.CallId
      content  == IF h2.ContentType # <<>>
                  THEN << fContentType \o h2.ContentType, fContentLength \o IntToStr(h2.ContentLength) >>
                  ELSE <<>>
      lines    == HeaderLines(via, forwards, from, to, contacts, id, content)
  IN  [panic |-> FALSE, text |-> Join(lines, CRLF), h |-> h2]

(***************************************************************************)
(* invite.go and register.go: the message variants.  self is the struct    *)
(* (headers, control, uri); a method's result carries the struct as the    *)
(* call leaves it.                                                         *)
(***************************************************************************)
NewMessage == [headers |-> EmptyCommonHeaders, control |-> EmptyCallControlHeaders, uri |-> <<>>]

\* "<METHOD> sip:%s SIP/2.0\r\n%s\r\n%s\r\n%s\r\n\r\n"
RequestText(method, uri, headerText, sequence) ==
  method \o fSip \o uri \o fSipVersion \o CRLF
    \o headerText \o CRLF
    \o fCSeq \o IntToStr(sequence) \o <<" ">> \o method \o CRLF
    \o fSupported \o CRLF \o CRLF

\* the instance as it would be left had renderHeaders been handed pointers
afterRenderHeadersShared(self, r) == [self EXCEPT !.headers = r.h]

\* the instance after renderHeaders(i.headers, i.control): the records are
\* passed by value, so what renderHeaders assigned to its copy is dropped
afterRenderHeaders(self, r) == self

InviteRender(self, ords) ==
  IF self.headers.To = NilHeader THEN [panic |-> TRUE, text |-> <<>>, self |-> self]
  ELSE LET r == renderHeaders(self.headers, self.control, ords) IN
       IF r.panic THEN [panic |-> TRUE, text |-> <<>>, self |-> self]
       ELSE [panic |-> FALSE, self |-> afterRenderHeaders(self, r),
             text |-> RequestText(sINVITE, Uri(self.headers.To), r.text, self.control.Sequence)]

\* Register.Render as it would be with the slice guarded: a fault when
\* the To URI has no "@"
RegisterRenderChecked(self, ords) ==
  IF self.headers.To = NilHeader \/ Index(Uri(self.headers.To), "@") = -1
  THEN [panic |-> TRUE, text |-> <<>>, self |-> self]
  ELSE LET self1 == [self EXCEPT !.uri = SliceFrom(Uri(self.headers.To), Index(Uri(self.headers.To), "@") + 1)]
           r     == renderHeaders(self1.headers, self1.control, ords)
       IN  IF r.panic THEN [panic |-> TRUE, text |-> <<>>, self |-> self1]
           ELSE [panic |-> FALSE, self |-> self1,
                 text |-> RequestText(sREGISTER, self1.uri, r.text, self1.control.Sequence)]

\* Register.Render as it would be cutting at the last "@" (LastIndex)
RegisterRenderLastAt(self, ords) ==
  IF self.headers.To = NilHeader THEN [panic |-> TRUE, text |-> <<>>, self |-> self]
  ELSE LET toUri  == Uri(self.headers.To)
           ats    == {i \in 1..Len(toUri) : toUri[i] = "@"}
           last   == IF ats = {} THEN 0 ELSE CHOOSE i \in ats : \A j \in ats : j <= i
           self1  == [self EXCEPT !.uri = SliceFrom(toUri, last)]
           r      == renderHeaders(self1.headers, self1.control, ords)
       IN  IF r.panic THEN [panic |-> TRUE, text |-> <<>>, self |-> self1]
           ELSE [panic |-> FALSE, self |-> self1,
                 text |-> RequestText(sREGISTER, self1.uri, r.text, self1.control.Sequence)]

RegisterRender(self, ords) ==
  IF self.headers.To = NilHeader THEN [panic |-> TRUE, text |-> <<>>, self |-> self]
  ELSE LET toUri  == Uri(self.headers.To)
           target == SliceFrom(toUri, Index(toUri, "@") + 1)
           self1  == [self EXCEPT !.uri = target]
           r      == renderHeaders(self1.headers, self1.control, ords)
       IN  IF r.panic THEN [panic |-> TRUE, text |-> <<>>, self |-> self1]
           ELSE [panic |-> FALSE, self |-> afterRenderHeaders(self1, r),
                 text |-> RequestText(sREGISTER, self1.uri, r.text, self1.control.Sequence)]

\* the end of Parse: what parseHeaders returns is dropped, the validator's
\* error is returned
ParseReturn(v, uri, p) ==
  [panic |-> p.panic,
   err   |-> IF p.panic THEN NoError ELSE v.err,
   self  |-> [headers |-> p.h, control |-> p.c, uri |-> uri]]

\* Parse as it would be without the two assignments that reset the records
ParseValidatedKeeps(self, lines, v, toks) ==
  IF v.panic \/ Len(toks) < 2 THEN [panic |-> TRUE, err |-> NoError, self |-> self]
  ELSE ParseReturn(v, toks[2], parseHeaders(lines, self.headers, self.control))

\* Parse after the validator: the uri, the records reset, the headers parsed
ParseValidated(self, lines, v, toks) ==
  IF v.panic \/ Len(toks) < 2 THEN [panic |-> TRUE, err |-> NoError, self |-> self]
  ELSE ParseReturn(v, toks[2], parseHeaders(lines, EmptyCommonHeaders, EmptyCallControlHeaders))

ParseLines(self, lines, method) ==
  ParseValidated(self, lines, validateMethod(lines[1], method), Split(lines[1], " "))

\* Invite.Parse and Register.Parse differ in the method they validate
ParseAs(self, message, method) == ParseLines(self, Split(message, "\n"), method)

InviteParse(self, message) == ParseAs(self, message, sINVITE)
RegisterParse(self, message) == ParseAs(self, message, sREGISTER)

InviteMethod == sINVITE
RegisterMethod == sRegister

(***************************************************************************)
(* The callers' inputs.                                                    *)
(***************************************************************************)
\* request lines: well-formed ones for both variants, other versions,
\* a method that only begins with INVITE, a bad version, a lone token
rInvite20 == <<"I", "N", "V", "I", "T", "E", " ", "s", "i", "p", ":", "x", " ", "S", "I", "P", "/", "2", ".", "0">>
rRegister20 == <<"R", "E", "G", "I", "S", "T", "E", "R", " ", "s", "i", "p", ":", "x", " ", "S", "I", "P", "/", "2", ".", "0">>
rInvite30 == <<"I", "N", "V", "I", "T", "E", " ", "s", "i", "p", ":", "x", " ", "S", "I", "P", "/", "3", ".", "0">>
rRegister25 == <<"r", "e", "g", "i", "s", "t", "e", "r", " ", "s", "i", "p", ":", "y", " ", "S", "I", "P", "/", "2", ".", "5">>
rInvitex20 == <<"I", "N", "V", "I", "T", "E", "X", " ", "s", "i", "p", ":", "x", " ", "S", "I", "P", "/", "2", ".", "0">>
rInviteBad == <<"I", "N", "V", "I", "T", "E", " ", "s", "i", "p", ":", "x", " ", "S", "I", "P", "/", "x">>
rInviteOnly == <<"I", "N", "V", "I", "T", "E">>
rInvite1 == <<"i", "n", "v", "i", "t", "e", " ", "s", "i", "p", ":", "y", " ", "S", "I", "P", "/", "1">>

RequestLines == {rInvite20, rRegister20, rInvite30, rRegister25, rInvitex20, rInviteBad, rInviteOnly, rInvite1}
GoodRequestLines == {rInvite20, rRegister20}

\* header lines
lVia == <<"V", "i", "a", ":", " ", "S", "I", "P", "/", "2", ".", "0", "/", "U", "D", "P", " ", "h", "1", ";", "b", "r", "a", "n", "c", "h", "=", "z">>
lForwards == <<"M", "a", "x", "-", "F", "o", "r", "w", "a", "r", "d", "s", ":", " ", "5">>
lForwardsBad == <<"M", "a", "x", "-", "F", "o", "r", "w", "a", "r", "d", "s", ":", " ", "a", "b", "c">>
lContact == <<"m", ":", " ", "A", " ", "<", "u", ">", ";", "Q", "=", "1", ",", " ", "<", "w", ">">>
lCSeqBad == <<"C", "S", "e", "q", ":", " ", "x", " ", "I", "N", "V", "I", "T", "E">>
lFromBad == <<"F", "r", "o", "m", ":", " ", "A">>
lLengthBad == <<"C", "o", "n", "t", "e", "n", "t", "-", "L", "e", "n", "g", "t", "h", ":", " ", "1", ".", "5">>
lFrom == <<"f", ":", " ", "A", "l", " ", "<", "a", "l", "@", "x", ">", ";", "t", "a", "g", "=", "7">>

\* the lines a header block is drawn from, in the order they appear in it
HeaderLinePool == <<lVia, lForwards, lForwardsBad, lContact, lCSeqBad, lFromBad, lLengthBad, lFrom>>

\* the most lines a parsed header block holds
MaxHeaderLines == 2

\* the elements of seq at the positions in S, in order
RECURSIVE PickLines(_, _)
PickLines(seq, S) ==
  IF S = {} THEN <<>>
  ELSE LET i == CHOOSE x \in S : \A y \in S : x <= y IN <<seq[i]>> \o PickLines(seq, S \ {i})

HeaderBlocks ==
  {PickLines(HeaderLinePool, S) : S \in {T \in SUBSET (1..Len(HeaderLinePool)) : Cardinality(T) <= MaxHeaderLines}}

LineEndings == {<<"\n">>, CRLF}

\* request line, header lines and the empty line that ends the block
WireText(requestLine, block, eol) == Join(<<requestLine>> \o block \o <<<<>>, <<>>>>, eol)

\* what the transport hands to Parse: every request line with no header
\* or one, and the well-formed request lines with every header block
WireMessages ==
  {WireText(r, b, e) : r \in RequestLines, b \in {<<>>, <<lVia>>}, e \in LineEndings}
    \cup {WireText(r, b, e) : r \in GoodRequestLines, b \in HeaderBlocks, e \in LineEndings}

\* the values a caller populates a message with before Render
uBob == <<"s", "i", "p", ":", "b", "o", "b", "@", "b", "i", "l", "o", "x", "i", ".", "c", "o", "m">>
uNasa == <<"n", "a", "s", "a", ".", "g", "o", "v">>
uTwoAt == <<"a", "@", "b", "@", "c">>
uAl == <<"a", "l", "@", "x">>
sBob == <<"B", "o", "b">>
sAl == <<"A", "l">>
sAppSdp == <<"a", "/", "b">>
sBranch == <<"z", "9">>
sCallId == <<"c", "1">>

ToChoices ==
  { SetUri(SetValue(NewToFrom, sBob), uBob),
    SetParam(SetValue(SetUri(NewToFrom, uNasa), <<"S">>), sTag, <<"9">>),
    SetUri(NewToFrom, uTwoAt) }
FromChoices == { SetParam(SetUri(SetValue(NewToFrom, sAl), uAl), sTag, <<"t", "1">>) }
ContactChoices ==
  { SetParam(SetValue(SetUri(NewContact, uAl), sAl), <<"q">>, <<"1">>),
    SetParam(SetParam(SetUri(NewContact, <<"w">>), <<"a">>, <<"1">>), <<"b">>, <<"2">>) }
ForwardChoices == {0, 5, -1}
ContentChoices == { <<<<>>, 3>>, <<sAppSdp, 3>> }
ViaChoices == { << <<<<"T", "C", "P">>, <<"h", "1">>>> >>,
                << <<<<"U", "D", "P">>, <<"h", "2">>>>, <<<<"T", "C", "P">>, <<"h", "1">>>> >> }

\* the most entries a caller appends to Contacts
MaxContacts == 2

(***************************************************************************)
(* The state machine: one message instance and its caller.                 *)
(***************************************************************************)
VARIABLES
  variant,  \* "Invite" or "Register": the type of the instance
  self,     \* the instance: headers, control, uri
  ret,      \* the last call and what it returned
  prev      \* the call before it, while nothing was assigned in between
            \* (Parse assigns: after it only the kind of that call is kept)

vars == <<variant, self, ret, prev>>

NoResult == [op |-> "none", panic |-> FALSE, err |-> NoError, text |-> <<>>, input |-> <<>>]

Init ==
  /\ variant \in {"Invite", "Register"}
  /\ self = NewMessage
  /\ ret = NoResult
  /\ prev = NoResult

\* an unrecovered fault ends the process
Running == ~ret.panic

\* the caller assigns a field through Headers() or Control()
Assign(newSelf) ==
  /\ Running
  /\ self' = newSelf
  /\ ret' = NoResult
  /\ prev' = NoResult
  /\ UNCHANGED variant

AssignTo == \E h \in ToChoices : Assign([self EXCEPT !.headers.To = h])
AssignFrom == \E h \in FromChoices : Assign([self EXCEPT !.headers.From = h])
AppendContact ==
  /\ Len(self.headers.Contacts) < MaxContacts
  /\ \E h \in ContactChoices : Assign([self EXCEPT !.headers.Contacts = Append(@, h)])
AssignForward == \E n \in ForwardChoices : Assign([self EXCEPT !.headers.Forward = n])
AssignContent ==
  \E ct \in ContentChoices :
    Assign([self EXCEPT !.headers.ContentType = ct[1], !.headers.ContentLength = ct[2]])
AssignVia == \E v \in ViaChoices : Assign([self EXCEPT !.control.Via = v])
AssignCallControl ==
  Assign([self EXCEPT !.control.ViaBranch = sBranch, !.control.CallId = sCallId, !.control.Sequence = 4])

\* the orders the contacts' parameter maps may be ranged in by one Render
ContactOrders(contacts) ==
  {f \in [1..Len(contacts) -> UNION {RangeOrders(contacts[i]) : i \in 1..Len(contacts)}] :
     \A i \in 1..Len(contacts) : f[i] \in RangeOrders(contacts[i])}

Render(m, ords) == IF variant = "Invite" THEN InviteRender(m, ords) ELSE RegisterRender(m, ords)
Parse(m, message) == IF variant = "Invite" THEN InviteParse(m, message) ELSE RegisterParse(m, message)
Method == IF variant = "Invite" THEN InviteMethod ELSE RegisterMethod

Rendered(r) ==
  /\ self' = r.self
  /\ ret' = [op |-> "Render", panic |-> r.panic, err |-> NoError, text |-> r.text, input |-> <<>>]

DoRender ==
  /\ Running
  /\ \E ords \in ContactOrders(RenderedContacts(self.headers)) : Rendered(Render(self, ords))
  /\ prev' = ret
  /\ UNCHANGED variant

DoMethod ==
  /\ Running
  /\ ret.op # "Method"
  /\ ret' = [op |-> "Method", panic |-> FALSE, err |-> NoError, text |-> Method, input |-> <<>>]
  /\ prev' = ret
  /\ UNCHANGED <<variant, self>>

Parsed(r, message) ==
  /\ self' = r.self
  /\ ret' = [op |-> "Parse", panic |-> r.panic, err |-> r.err, text |-> <<>>, input |-> message]

DoParseOf(message) ==
  /\ Running
  /\ Parsed(Parse(self, message), message)
  /\ prev' = [NoResult EXCEPT !.op = ret.op]
  /\ UNCHANGED variant

\* the transport delivers a message and the caller parses it
DoParse == \E message \in WireMessages : DoParseOf(message)

Next ==
  \/ AssignTo
  \/ AssignFrom
  \/ AppendContact
  \/ AssignForward
  \/ AssignContent
  \/ AssignVia
  \/ AssignCallControl
  \/ DoRender
  \/ DoMethod

\* a message populated field by field and rendered
Spec == Init /\ [][Next]_vars

\* a message populated by parsing what arrives
SpecParse == Init /\ [][DoParse]_vars

\* the caller builds the message to send; what was parsed is the end of
\* the exchange and is not rebuilt
BuildMessage ==
  /\ ret.op # "Parse"
  /\ (AssignTo \/ AssignFrom \/ AppendContact \/ AssignVia \/ AssignCallControl)

RenderMessage == ret.op # "Parse" /\ DoRender

\* the text Render returned is parsed by an instance of the same variant
DoParseRendered ==
  /\ ret.op = "Render"
  /\ DoParseOf(ret.text)

NextRoundTrip ==
  \/ BuildMessage
  \/ RenderMessage
  \/ DoParseRendered

\* a message built, rendered, and the rendered text parsed
SpecRoundTrip == Init /\ [][NextRoundTrip]_vars

\* the names and the values a caller passes to a header's methods
ParamNames == { sTag, <<"q">>, <<"T", "a", "g">> }
HeaderValues == { <<>>, <<"1">>, <<"2">> }

\* headers.To = NewHeader(&ToFrom{}): a message whose To holds a fresh header
InitHeader ==
  /\ variant \in {"Invite", "Register"}
  /\ self = [NewMessage EXCEPT !.headers.To = NewToFrom]
  /\ ret = NoResult
  /\ prev = NoResult

\* one call of a method of the To header: ret keeps the method, the name
\* passed (input) and the value passed or returned (text)
HeaderCall(op, name, text, h) ==
  /\ self' = [self EXCEPT !.headers.To = h]
  /\ ret' = [op |-> op, panic |-> FALSE, err |-> NoError, text |-> text, input |-> name]
  /\ prev' = ret
  /\ UNCHANGED variant

DoSetValue == \E v \in HeaderValues : HeaderCall("SetValue", <<>>, v, SetValue(self.headers.To, v))
DoSetUri == \E v \in HeaderValues : HeaderCall("SetUri", <<>>, v, SetUri(self.headers.To, v))
DoSetParam ==
  \E n \in ParamNames, v \in HeaderValues : HeaderCall("SetParam", n, v, SetParam(self.headers.To, n, v))
DoParam == \E n \in ParamNames : HeaderCall("Param", n, Param(self.headers.To, n), self.headers.To)

NextHeader ==
  \/ DoSetValue
  \/ DoSetUri
  \/ DoSetParam
  \/ DoParam

\* a To header driven through its setters and its getter
SpecHeader == InitHeader /\ [][NextHeader]_vars

(***************************************************************************)
(* The properties.                                                         *)
(***************************************************************************)
\* the method token the variant's Parse expects and its Render writes
ExpectedMethod == IF variant = "Invite" THEN sINVITE ELSE sREGISTER

\* the well-formed request line of the variant
ValidRequestLine == IF variant = "Invite" THEN rInvite20 ELSE rRegister20

\* the message text begins with this request line
StartsWithLine(text, line) == HasPrefix(text, line \o <<"\n">>) \/ HasPrefix(text, line \o CRLF)

\* Parse was the last call, on this text, and it returned
ParseReturned == ret.op = "Parse" /\ ~ret.panic

\* header lines whose integer does not parse
BadIntegerLines == {lForwardsBad, lCSeqBad, lLengthBad}

\* the request lines with a version other than 2.0: their leading token
\* and the number their third token names
OtherVersionLines ==
  { [line |-> rInvite30, token |-> sINVITE, version |-> [int |-> 3, frac |-> <<>>]],
    [line |-> rRegister25, token |-> <<"r", "e", "g", "i", "s", "t", "e", "r">>, version |-> [int |-> 2, frac |-> <<"5">>]],
    [line |-> rInvite1, token |-> <<"i", "n", "v", "i", "t", "e">>, version |-> [int |-> 1, frac |-> <<>>]] }

\* C1: when the request line is valid and the header block holds a line
\* with an unparseable integer, Parse returns a header-parse error whose
\* Line is the 0-based index of the first such line in the header block.
C1_HeaderParseErrorSurfaced ==
  \A b \in HeaderBlocks, e \in LineEndings :
    \A k \in 1..Len(b) :
      ( /\ ParseReturned
        /\ ret.input = WireText(ValidRequestLine, b, e)
        /\ b[k] \in BadIntegerLines
        /\ \A j \in 1..(k - 1) : b[j] \notin BadIntegerLines )
      => (ret.err.kind = "HeaderParseError" /\ ret.err.Line = k - 1)

\* C2 as claimed: when the request line fails both checks (its leading
\* token is not the expected method and its version is a number other than
\* 2.0), the error returned is the method mismatch with both tokens.
C2_MethodMismatchWins ==
  \A v \in OtherVersionLines :
    ( /\ ParseReturned
      /\ StartsWithLine(ret.input, v.line)
      /\ ToUpper(v.token) # ExpectedMethod )
    => ret.err = InvalidMethodError(ExpectedMethod, v.token)

\* C2 as the code has it: when the request line fails both checks, the
\* error returned is the unsupported-version error with the version number;
\* the method mismatch found first is overwritten.
C2_VersionErrorWins ==
  \A v \in OtherVersionLines :
    ( /\ ParseReturned
      /\ StartsWithLine(ret.input, v.line)
      /\ ToUpper(v.token) # ExpectedMethod )
    => ret.err = UnsupportedSipVersionError(v.version)

C2_Witness ==
  /\ variant = "Register"
  /\ ParseReturned
  /\ StartsWithLine(ret.input, rInvite30)
  /\ ret.err.kind = "UnsupportedSipVersionError"

\* C3: when the method of a three-token request line matches the variant
\* and its third token is SIP/<n> with n a number other than 2.0, Parse
\* returns an unsupported-version error whose Version is n, whether the
\* lines end in LF or in CR LF.
C3_UnsupportedVersion ==
  \A v \in OtherVersionLines, b \in {<<>>, <<lVia>>}, e \in LineEndings :
    ( /\ ret.op = "Parse"
      /\ ret.input = WireText(v.line, b, e)
      /\ ToUpper(v.token) = ExpectedMethod )
    => (~ret.panic /\ ret.err = UnsupportedSipVersionError(v.version))

C3_Witness ==
  /\ variant = "Invite"
  /\ ParseReturned
  /\ ret.input = WireText(rInvite30, <<>>, CRLF)
  /\ ret.err.kind = "UnsupportedSipVersionError"
  /\ ret.err.Version = [int |-> 3, frac |-> <<>>]

\* C6: after a Parse that returned, whatever was parsed into the instance
\* before, the header records and the request-target are those the same
\* Parse leaves in a freshly constructed instance; Via and Contacts hold
\* only what this message carries (at most one Via line and one Contact
\* line of two contacts here).
C6_ParseReplaces ==
  ParseReturned =>
    /\ self = Parse(NewMessage, ret.input).self
    /\ Len(self.control.Via) <= 1
    /\ Len(self.headers.Contacts) <= 2

C6_Witness ==
  /\ ParseReturned
  /\ prev.op = "Parse"
  /\ Len(self.control.Via) = 1
  /\ Len(self.headers.Contacts) = 2

\* C7: parsing a message whose From value has no <...> span does not
\* fault: Parse returns an invalid-format error.
C7_FromWithoutUriIsAnError ==
  \A r \in GoodRequestLines, e \in LineEndings :
    (ret.op = "Parse" /\ ret.input = WireText(r, <<lFromBad>>, e))
    => (~ret.panic /\ ret.err.kind = "InvalidMessageFormatError")

\* Render was the last call and it returned
RenderReturned == ret.op = "Render" /\ ~ret.panic

\* the text cut at every LF: each piece but the last still ends in CR
TextLines(text) == Split(text, "\n")

\* C4: two Renders in a row, with nothing assigned in between, return the
\* same text, also when a contact carries two or more parameters.
C4_RenderIdempotent ==
  (RenderReturned /\ prev.op = "Render" /\ ~prev.panic) => ret.text = prev.text

\* C5: a Render that returns writes, in this order: the request line, Via
\* (from Via[0], with the branch), Max-Forwards, From, To, one Contact line
\* per stored contact in stored order (one line when none is stored),
\* Call-ID, Content-Type and Content-Length only when ContentType is set,
\* CSeq with the sequence and the method, Supported; every line ends in
\* CR LF, one empty line ends the text and no other line is empty.
C5_RenderOrder ==
  RenderReturned =>
    LET L == TextLines(ret.text)
        h == self.headers
        c == self.control
        n == IF Len(h.Contacts) = 0 THEN 1 ELSE Len(h.Contacts)
        k == IF h.ContentType # <<>> THEN 2 ELSE 0
    IN  /\ Len(L) = 10 + n + k
        /\ \A i \in 1..(Len(L) - 1) : L[i] # <<>> /\ L[i][Len(L[i])] = "\r"
        /\ \A i \in 1..(Len(L) - 2) : Len(L[i]) > 1
        /\ L[Len(L) - 1] = <<"\r">>
        /\ L[Len(L)] = <<>>
        /\ HasPrefix(L[1], ExpectedMethod \o fSip)
        /\ HasSuffix(L[1], fSipVersion \o <<"\r">>)
        /\ L[2] = fVia \o c.Via[1][1] \o <<" ">> \o c.Via[1][2] \o fBranch \o c.ViaBranch \o <<"\r">>
        /\ HasPrefix(L[3], fMaxForwards)
        /\ HasPrefix(L[4], fFrom)
        /\ HasPrefix(L[5], fTo)
        /\ \A j \in 1..n :
             /\ HasPrefix(L[5 + j], fContact)
             /\ Len(h.Contacts) > 0 =>
                  HasPrefix(L[5 + j], fContact \o Value(h.Contacts[j]) \o <<" ", "<">> \o Uri(h.Contacts[j]) \o <<">">>)
        /\ L[6 + n] = fCallId \o c.CallId \o <<"\r">>
        /\ k = 2 => (HasPrefix(L[7 + n], fContentType) /\ HasPrefix(L[8 + n], fContentLength))
        /\ L[7 + n + k] = fCSeq \o IntToStr(c.Sequence) \o <<" ">> \o ExpectedMethod \o <<"\r">>
        /\ L[8 + n + k] = fSupported \o <<"\r">>

C5_Witness ==
  /\ RenderReturned
  /\ Len(self.headers.Contacts) = 2
  /\ self.headers.ContentType # <<>>
  /\ Len(self.control.Via) = 2
  /\ self.control.Sequence = 4

\* the URI holds no "@"
NoAt(uri) == \A i \in 1..Len(uri) : uri[i] # "@"

\* what follows the first "@" of a URI that holds one
AfterFirstAt(uri) ==
  LET first == CHOOSE i \in 1..Len(uri) : uri[i] = "@" /\ \A j \in 1..(i - 1) : uri[j] # "@"
  IN  SubSeq(uri, first + 1, Len(uri))

\* Register.Render was the last call, on a message whose To is set
RegisterRendered == variant = "Register" /\ ret.op = "Render" /\ self.headers.To # NilHeader

\* C8 as claimed: Register.Render on a message whose To URI holds no "@"
\* faults and produces no text.
C8_RenderFaultsWithoutAt ==
  (RegisterRendered /\ NoAt(Uri(self.headers.To))) => (ret.panic /\ ret.text = <<>>)

\* C8 as the code has it: Register.Render on a message whose To URI holds
\* no "@" does not fault in the slice (Index gives -1, the slice starts at
\* 0): with From set and a Via present it returns the text, and the
\* request-target is the whole To URI.
C8_RenderWithoutAtKeepsUri ==
  ( /\ RegisterRendered
    /\ NoAt(Uri(self.headers.To))
    /\ self.headers.From # NilHeader
    /\ Len(self.control.Via) > 0 )
  => /\ ~ret.panic
     /\ self.uri = Uri(self.headers.To)
     /\ HasPrefix(ret.text, sREGISTER \o fSip \o Uri(self.headers.To) \o fSipVersion \o CRLF)

C8_Witness ==
  /\ RegisterRendered
  /\ Uri(self.headers.To) = uNasa
  /\ ~ret.panic
  /\ self.uri = uNasa

\* "REGISTER sip:biloxi.com SIP/2.0"
rRegisterBiloxi == <<"R", "E", "G", "I", "S", "T", "E", "R", " ", "s", "i", "p", ":", "b", "i", "l", "o", "x", "i", ".", "c", "o", "m", " ", "S", "I", "P", "/", "2", ".", "0">>

\* C9: when the To URI holds an "@", the first line Register.Render writes
\* has as request-target the To URI without everything up to and including
\* its first "@" (sip:bob@biloxi.com gives REGISTER sip:biloxi.com SIP/2.0),
\* and the To line still shows the whole To URI.
C9_RegisterTarget ==
  (RegisterRendered /\ ~ret.panic /\ ~NoAt(Uri(self.headers.To))) =>
    LET L  == TextLines(ret.text)
        to == self.headers.To
    IN  /\ L[1] = sREGISTER \o fSip \o AfterFirstAt(Uri(to)) \o fSipVersion \o <<"\r">>
        /\ Uri(to) = uBob => L[1] = rRegisterBiloxi \o <<"\r">>
        /\ HasPrefix(L[5], fTo \o Value(to) \o <<" ", "<">> \o Uri(to) \o <<">">>)

C9_Witness ==
  /\ RegisterRendered
  /\ ~ret.panic
  /\ Uri(self.headers.To) = uBob
  /\ TextLines(ret.text)[1] = rRegisterBiloxi \o <<"\r">>

\* C10: Register.Method() returns the upper-case token REGISTER, the one
\* Register.Parse validates against and Register.Render writes.
C10_RegisterMethodUpperCase ==
  (variant = "Register" /\ ret.op = "Method") => (ret.text = sREGISTER /\ ret.text = ExpectedMethod)

\* the positions of the Contact lines in a text cut into lines
ContactLinesOf(L) == {i \in 1..Len(L) : HasPrefix(L[i], fContact)}

\* the Contact line the fallback writes for a From header
FallbackContactLine(from) ==
  fContact \o Value(from) \o <<" ", "<">> \o Uri(from) \o <<">", "\r">>

\* C11: rendered with Contacts empty, the text has exactly one Contact
\* line, "Contact: <From value> <<From URI>>" with nothing after it (no
\* tag); rendered with Contacts non-empty, it has one Contact line per
\* stored entry and none made from From.
C11_ContactFallback ==
  RenderReturned =>
    LET L == TextLines(ret.text)
        h == self.headers
    IN  IF Len(h.Contacts) = 0
        THEN /\ Cardinality(ContactLinesOf(L)) = 1
             /\ \A i \in ContactLinesOf(L) : L[i] = FallbackContactLine(h.From)
        ELSE /\ Cardinality(ContactLinesOf(L)) = Len(h.Contacts)
             /\ \A i \in ContactLinesOf(L) : L[i] # FallbackContactLine(h.From)

C11_Witness ==
  /\ RenderReturned
  /\ Len(self.headers.Contacts) = 0
  /\ Param(self.headers.From, sTag) # <<>>
  /\ \E i \in 1..Len(TextLines(ret.text)) :
       TextLines(ret.text)[i] = FallbackContactLine(self.headers.From)

\* "Max-Forwards: 70", "Max-Forwards: 5", "Max-Forwards: -1", "Max-Forwards: 0"
lForwards70 == <<"M", "a", "x", "-", "F", "o", "r", "w", "a", "r", "d", "s", ":", " ", "7", "0", "\r">>
lForwards5 == <<"M", "a", "x", "-", "F", "o", "r", "w", "a", "r", "d", "s", ":", " ", "5", "\r">>
lForwardsMinus1 == <<"M", "a", "x", "-", "F", "o", "r", "w", "a", "r", "d", "s", ":", " ", "-", "1", "\r">>
lForwards0 == <<"M", "a", "x", "-", "F", "o", "r", "w", "a", "r", "d", "s", ":", " ", "0", "\r">>

\* C12: rendered with Forward 0 the text has the line "Max-Forwards: 70";
\* with Forward n other than 0 the line is "Max-Forwards: n"; the line
\* "Max-Forwards: 0" is never written.
C12_ForwardDefault ==
  RenderReturned =>
    LET L == TextLines(ret.text)
        n == self.headers.Forward
    IN  /\ n = 0 => L[3] = lForwards70
        /\ n = 5 => L[3] = lForwards5
        /\ n = -1 => L[3] = lForwardsMinus1
        /\ n # 0 => L[3] = fMaxForwards \o IntToStr(n) \o <<"\r">>
        /\ \A i \in 1..Len(L) : L[i] # lForwards0
        /\ Cardinality({i \in 1..Len(L) : HasPrefix(L[i], fMaxForwards)}) = 1

C12_Witness ==
  /\ RenderReturned
  /\ self.headers.Forward = 0
  /\ TextLines(ret.text)[3] = lForwards70

\* the text of a request line up to its first space
LeadingToken(line) ==
  LET spaces == {i \in 1..Len(line) : line[i] = " "}
  IN  IF spaces = {} THEN line
      ELSE SubSeq(line, 1, (CHOOSE i \in spaces : \A j \in spaces : i <= j) - 1)

\* C13: a request line of version 2.0 whose leading token, compared without
\* regard to case, is not the expected method is refused with the method
\* mismatch error, Actual being that token; so is a token that only begins
\* with the expected method (INVITEX validated against INVITE).
C13_LeadingTokenChecked ==
  \A r \in RequestLines :
    ( /\ ret.op = "Parse"
      /\ StartsWithLine(ret.input, r)
      /\ HasSuffix(r, sSIP20)
      /\ ToUpper(LeadingToken(r)) # ExpectedMethod )
    => (~ret.panic /\ ret.err = InvalidMethodError(ExpectedMethod, LeadingToken(r)))

\* what one call on the To header may change
C14_Step ==
  /\ (ret'.op = "SetParam" /\ ret'.input = sTag) => Param(self'.headers.To, sTag) = ret'.text
  /\ (ret'.op = "SetParam" /\ ret'.input # sTag) => self'.headers.To = self.headers.To
  /\ ret'.op \in {"SetValue", "SetUri", "Param"} =>
       Param(self'.headers.To, sTag) = Param(self.headers.To, sTag)
  /\ ret'.op = "Param" =>
       /\ self'.headers.To = self.headers.To
       /\ ret'.text = Param(self.headers.To, ret'.input)

\* C14: for a ToFrom header under any sequence of SetValue, SetUri and
\* SetParam: Param of a name other than "tag" is empty; Param("tag") is
\* empty until a SetParam("tag", v), then the v of the latest one (a call
\* with "tag" sets it, no other call changes it); SetParam with another
\* name changes neither value nor uri nor tag.
C14_SingleTag ==
  /\ Param(self.headers.To, sTag) = <<>>
  /\ [](\A n \in ParamNames : n # sTag => Param(self.headers.To, n) = <<>>)
  /\ []((ret.op = "Param" /\ ret.input # sTag) => ret.text = <<>>)
  /\ [][C14_Step]_vars

C14_Witness ==
  /\ ret.op = "Param"
  /\ ret.input = sTag
  /\ ret.text = <<"2">>
  /\ prev.op = "SetParam"
  /\ prev.input = <<"q">>
  /\ prev.text = <<"1">>
  /\ self.headers.To.kind = "ToFrom"

\* C15: a Render leaves the header records as they were: Forward keeps
\* its value (0 stays 0 though 70 is written), Contacts stays empty when
\* it was (the contact made from From is not stored), every other field of
\* the two records is unchanged; only Register's request-target may change.
C15_RenderFrame ==
  [][ret'.op = "Render" =>
       /\ self'.headers = self.headers
       /\ self'.control = self.control
       /\ variant = "Invite" => self' = self]_vars

C15_Witness ==
  /\ RenderReturned
  /\ self.headers.Forward = 0
  /\ self.headers.Contacts = <<>>
  /\ TextLines(ret.text)[3] = lForwards70
  /\ TextLines(ret.text)[6] = FallbackContactLine(self.headers.From)

\* the parameter names a contact holds
ParamKeys(contact) == {k \in DOMAIN contact.m : ~HasPrefix(k, sUnderscore)}

\* C16: when the text a Render returned is parsed by the same variant,
\* every contact the message held comes back at the same position with the
\* same value and URI, and each of its parameters k reads back, by
\* Param(k), the value it had.
C16_ContactRoundTrip ==
  [][(ret.op = "Render" /\ ~ret.panic /\ ret'.op = "Parse") =>
       /\ ~ret'.panic
       /\ \A j \in 1..Len(self.headers.Contacts) :
            /\ j <= Len(self'.headers.Contacts)
            /\ Value(self'.headers.Contacts[j]) = Value(self.headers.Contacts[j])
            /\ Uri(self'.headers.Contacts[j]) = Uri(self.headers.Contacts[j])
            /\ \A k \in ParamKeys(self.headers.Contacts[j]) :
                 Param(self'.headers.Contacts[j], k) = Param(self.headers.Contacts[j], k)]_vars

====
